---------------------------- MODULE Spec2Model ----------------------------
(***************************************************************************)
(* Kreyol Lingua: the React Native front-end of a Haitian Creole analysis  *)
(* service.  The model covers the App component's state (useState cells),  *)
(* its handlers (analyzeText, saveToFavorites, removeFavorite,             *)
(* loadFavorites, speak, showWordInfo), the durable key "favorites" of     *)
(* AsyncStorage with its in-flight reads and writes, and the in-flight     *)
(* requests to the analysis service.                                       *)
(*                                                                         *)
(* A JavaScript string is a sequence of one-character strings, so that     *)
(* toLowerCase, replace, startsWith and split are computed character by    *)
(* character.  The value `undefined` of a string field is the reserved     *)
(* value Undefined.                                                        *)
(***************************************************************************)
EXTENDS Integers, Sequences, FiniteSets, TLC

(***************************************************************************)
(* Bounds of the model.                                                    *)
(***************************************************************************)
\* analyze requests issued in one run
MaxRequests == 2
\* AsyncStorage.setItem calls that may be in flight together
MaxPending == 2

(***************************************************************************)
(* Strings.                                                                *)
(***************************************************************************)
Undefined == <<"<undefined>">>

IsString(v) == v # Undefined

\* JavaScript truthiness of a string-or-undefined value
Truthy(v) == v # Undefined /\ v # <<>>

UpperChars == <<"A","B","C","D","E","F","G","H","I","J","K","L","M",
                "N","O","P","Q","R","S","T","U","V","W","X","Y","Z">>

LowerChars == <<"a","b","c","d","e","f","g","h","i","j","k","l","m",
                "n","o","p","q","r","s","t","u","v","w","x","y","z">>

Digits == {"0","1","2","3","4","5","6","7","8","9"}

\* the capitals outside A-Z that toLowerCase lowers, of the Latin-1 range
UpperAccented == <<"À","Á","Â","Ã","Ä","Å","Æ","Ç","È","É","Ê","Ë","Ì","Í","Î",
                   "Ï","Ð","Ñ","Ò","Ó","Ô","Õ","Ö","Ø","Ù","Ú","Û","Ü","Ý","Þ">>

LowerAccented == <<"à","á","â","ã","ä","å","æ","ç","è","é","ê","ë","ì","í","î",
                   "ï","ð","ñ","ò","ó","ô","õ","ö","ø","ù","ú","û","ü","ý","þ">>

LowerChar(c) ==
    IF \E i \in 1..26 : UpperChars[i] = c
    THEN LowerChars[CHOOSE i \in 1..26 : UpperChars[i] = c]
    ELSE IF \E i \in DOMAIN UpperAccented : UpperAccented[i] = c
         THEN LowerAccented[CHOOSE i \in DOMAIN UpperAccented : UpperAccented[i] = c]
         ELSE c

\* String.prototype.toLowerCase
toLowerCase(s) == [i \in 1..Len(s) |-> LowerChar(s[i])]

\* \w of a JavaScript regular expression without the u flag
IsWordChar(c) ==
    \/ \E i \in 1..26 : UpperChars[i] = c \/ LowerChars[i] = c
    \/ c \in Digits
    \/ c = "_"

\* \b at the position between s[k-1] and s[k]
BoundaryAt(s, k) ==
    LET before == k - 1 >= 1 /\ k - 1 <= Len(s) /\ IsWordChar(s[k - 1])
        after  == k >= 1 /\ k <= Len(s) /\ IsWordChar(s[k])
    IN  before # after

\* whether the pattern (word-bounded when wb) matches s at position i
MatchAt(s, i, pat, wb) ==
    /\ i + Len(pat) - 1 <= Len(s)
    /\ SubSeq(s, i, i + Len(pat) - 1) = pat
    /\ wb => (BoundaryAt(s, i) /\ BoundaryAt(s, i + Len(pat)))

RECURSIVE ReplaceFrom(_, _, _, _, _)
ReplaceFrom(s, i, pat, rep, wb) ==
    IF i > Len(s) THEN <<>>
    ELSE IF MatchAt(s, i, pat, wb)
         THEN rep \o ReplaceFrom(s, i + Len(pat), pat, rep, wb)
         ELSE <<s[i]>> \o ReplaceFrom(s, i + 1, pat, rep, wb)

\* a replace without the g flag: the first occurrence only
replaceFirst(s, pat, rep, wb) ==
    IF \E i \in 1..Len(s) : MatchAt(s, i, pat, wb)
    THEN LET i == CHOOSE k \in 1..Len(s) :
                      /\ MatchAt(s, k, pat, wb)
                      /\ \A j \in 1..(k - 1) : ~MatchAt(s, j, pat, wb)
         IN  SubSeq(s, 1, i - 1) \o rep \o SubSeq(s, i + Len(pat), Len(s))
    ELSE s

\* s.replace(/pat/g, rep), or s.replace(/\bpat\b/g, rep) when wb
replace(s, pat, rep, wb) == ReplaceFrom(s, 1, pat, rep, wb)

\* the rules of the latest speak, in the order of the chained replace calls
Rules ==
    << [pat |-> <<"a","p">>,             rep |-> <<"a","p","p">>,                         wb |-> TRUE],
       [pat |-> <<"m","a","c","h","e">>, rep |-> <<"m","a","c","h","é">>,                 wb |-> FALSE],
       [pat |-> <<"m","a","n","j","e">>, rep |-> <<"m","a","n","-","z","h","a","y">>,     wb |-> FALSE],
       [pat |-> <<"m","w","e","n">>,     rep |-> <<"m","o","u","-","e","n">>,             wb |-> FALSE],
       [pat |-> <<"a","l","e">>,         rep |-> <<"a","l","l","-","a","y">>,             wb |-> FALSE],
       [pat |-> <<"p","a","l","e">>,     rep |-> <<"p","a","h","-","l","a","y">>,         wb |-> FALSE],
       [pat |-> <<"l","i">>,             rep |-> <<"l","e","e">>,                         wb |-> FALSE] >>

RECURSIVE ApplyRules(_, _, _)
ApplyRules(s, rules, k) ==
    IF k > Len(rules) THEN s
    ELSE ApplyRules(replace(s, rules[k].pat, rules[k].rep, rules[k].wb), rules, k + 1)

\* the text the latest speak hands to Speech.speak
phoneticText(textToSpeak) == ApplyRules(toLowerCase(textToSpeak), Rules, 1)

\* the rules of the speak with four rules
EarlyRules ==
    << [pat |-> <<"a","p">>,             rep |-> <<"a","p","p">>,                         wb |-> TRUE],
       [pat |-> <<"m","a","c","h","e">>, rep |-> <<"m","a","c","h","é">>,                 wb |-> FALSE],
       [pat |-> <<"m","a","n","j","e">>, rep |-> <<"m","a","n","-","z","h","a","y">>,     wb |-> FALSE],
       [pat |-> <<"m","w","e","n">>,     rep |-> <<"m","o","u","-","e","n">>,             wb |-> FALSE] >>

\* the text the speak with four rules hands to Speech.speak
earlyPhoneticText(textToSpeak) == ApplyRules(toLowerCase(textToSpeak), EarlyRules, 1)

\* the rules of the speak of the App with favorites: no toLowerCase before them
AppRules ==
    << [pat |-> <<"m","w","e","n">>,     rep |-> <<"m","o","u","-","e","n">>,         wb |-> FALSE],
       [pat |-> <<"m","a","n","j","e">>, rep |-> <<"m","a","n","-","j","a","y">>,     wb |-> FALSE],
       [pat |-> <<"k","o","u","r","i">>, rep |-> <<"k","o","o","-","r","e","e">>,     wb |-> FALSE] >>

\* the text the speak of the App hands to Speech.speak
appPhoneticText(textToSpeak) == ApplyRules(textToSpeak, AppRules, 1)


(***************************************************************************)
(* Tag lookup of showWordInfo.                                             *)
(***************************************************************************)
\* String.prototype.startsWith
startsWith(s, prefix) ==
    Len(s) >= Len(prefix) /\ SubSeq(s, 1, Len(prefix)) = prefix

RECURSIVE SplitFrom(_, _, _, _)
\* the segments of s from position i on, cur being the segment under way
SplitFrom(s, i, sep, cur) ==
    IF i > Len(s) THEN <<cur>>
    ELSE IF s[i] = sep
         THEN <<cur>> \o SplitFrom(s, i + 1, sep, <<>>)
         ELSE SplitFrom(s, i + 1, sep, Append(cur, s[i]))

\* String.prototype.split with a one-character separator
split(s, sep) == SplitFrom(s, 1, sep, <<>>)

RECURSIVE FindFrom(_, _, _)
\* Array.prototype.find(t => t.startsWith(prefix)): the first such tag, or Undefined
FindFrom(tags, k, prefix) ==
    IF k > Len(tags) THEN Undefined
    ELSE IF startsWith(tags[k], prefix) THEN tags[k]
         ELSE FindFrom(tags, k + 1, prefix)

find(tags, prefix) == FindFrom(tags, 1, prefix)

\* token.tags.find(t => t.startsWith(prefix))?.split(':')[1]
TagValue(tags, prefix) ==
    LET t == find(tags, prefix)
    IN  IF t = Undefined THEN Undefined
        ELSE LET parts == split(t, ":")
             IN  IF Len(parts) >= 2 THEN parts[2] ELSE Undefined

NoDefinitionFound == <<"N","o"," ","d","e","f","i","n","i","t","i","o","n"," ","f","o","u","n","d">>

Unknown == <<"U","n","k","n","o","w","n">>

DefPrefix == <<"D","E","F",":">>

PosPrefix == <<"P","O","S",":">>

\* v || sentinel
OrElse(v, sentinel) == IF Truthy(v) THEN v ELSE sentinel

\* the definition showWordInfo displays
definition(token) == OrElse(TagValue(token.tags, DefPrefix), NoDefinitionFound)

\* the part of speech showWordInfo displays
pos(token) == OrElse(TagValue(token.tags, PosPrefix), Unknown)


(***************************************************************************)
(* Values of the model: the texts a user types, the answers of the         *)
(* analysis service, the values the durable key can hold.                  *)
(***************************************************************************)
TextAp == <<"A","p">>

TextLi == <<"l","i">>

\* what onChangeText can put into inputText
InputTexts == { <<>>, TextAp }

TagPosAux == <<"P","O","S",":","A","U","X">>

\* The answers POST /analyze can give for a text: the full answer, and the
\* answers with normalized_text, with tokens, or with the fields of a token
\* missing.
Responses(text) ==
    LET n     == toLowerCase(text)
        full  == [original |-> text, normalized |-> n,
                  hasTags |-> TRUE, tags |-> <<TagPosAux>>]
        bare  == [original |-> Undefined, normalized |-> Undefined,
                  hasTags |-> FALSE, tags |-> <<>>]
    IN  { [normalized_text |-> n,         hasTokens |-> TRUE,  tokens |-> <<full>>],
          [normalized_text |-> Undefined, hasTokens |-> TRUE,  tokens |-> <<full>>],
          [normalized_text |-> n,         hasTokens |-> FALSE, tokens |-> <<>>],
          [normalized_text |-> n,         hasTokens |-> TRUE,  tokens |-> <<bare>>] }

\* JSON.stringify of a favorites array
stringify(list) == [kind |-> "array", items |-> list]

\* the durable value of a key that was never written: getItem gives null
StoredNull == [kind |-> "null", items |-> <<>>]

\* a durable value that is not JSON
StoredGarbage == [kind |-> "garbage", items |-> <<>>]

\* a durable value that is JSON but not an array
StoredObject == [kind |-> "object", items |-> <<>>]

\* What the key "favorites" can hold when the app starts: nothing, a damaged
\* value, or a list an earlier session wrote with setItem.
InitialStorage ==
    { StoredNull, StoredGarbage, StoredObject,
      stringify(<<toLowerCase(TextLi)>>),
      stringify(<<toLowerCase(TextLi), toLowerCase(TextAp)>>) }

EmptyFavorites == [isArray |-> TRUE, items |-> <<>>]

EmptyTokens == [defined |-> TRUE, items |-> <<>>]

NoAlert == [word |-> Undefined, definition |-> Undefined, pos |-> Undefined]

NoHist == [op |-> "none", arg |-> <<>>, pre |-> <<>>]

\* Speech.speak has not been called
Silent == <<"<silent>">>

(***************************************************************************)
(* State.                                                                  *)
(***************************************************************************)
VARIABLES
    inputText,    \* useState('')
    result,       \* useState(''): a string, or Undefined
    tokens,       \* useState([]): [defined, items]
    loading,      \* useState(false)
    favorites,    \* useState([]): [isArray, items]
    storage,      \* the durable value of the key "favorites"
    loadPc,       \* loadFavorites: "issued", "read", "done"
    saved,        \* the value getItem read, while loadPc = "read"
    writes,       \* the setItem calls in flight, oldest first
    requests,     \* the analyze requests in flight: [id, text]
    nextId,       \* the number of analyze requests sent
    alerts,       \* the number of "Error connecting to the brain!" alerts
    wordInfo,     \* the last alert of showWordInfo
    spoken,       \* the last text handed to Speech.speak
    faults,       \* the faults that escaped: "load", "save", "render", "showWordInfo", "speak"
    resultFrom,   \* history: the request whose answer result and tokens hold
    lastAnalyze,  \* history: how the last analyzeText call ended
    hist          \* history: the last saveToFavorites / removeFavorite / speak call

\* the program's state
progVars == << inputText, result, tokens, loading, favorites, storage, loadPc, saved,
               writes, requests, nextId, alerts, wordInfo, spoken, faults >>

vars == << progVars, resultFrom, lastAnalyze, hist >>

analysisVars == << inputText, result, tokens, loading, requests, nextId, alerts >>

storeVars == << favorites, storage, loadPc, saved, writes >>

Init ==
    /\ inputText = <<>>
    /\ result = <<>>
    /\ tokens = EmptyTokens
    /\ loading = FALSE
    /\ favorites = EmptyFavorites
    /\ storage \in InitialStorage
    /\ loadPc = "issued"
    /\ saved = StoredNull
    /\ writes = <<>>
    /\ requests = {}
    /\ nextId = 0
    /\ alerts = 0
    /\ wordInfo = NoAlert
    /\ spoken = Silent
    /\ faults = {}
    /\ resultFrom = 0
    /\ lastAnalyze = "none"
    /\ hist = NoHist

(***************************************************************************)
(* Rendering.  The component's body reads tokens.map inside the result     *)
(* block and favorites.map always; a render that throws takes the screen   *)
(* down, and with it every button.                                         *)
(***************************************************************************)
RenderThrows(res, toks, favs) ==
    \/ Truthy(res) /\ ~toks.defined
    \/ ~favs.isArray

RenderFault(res, toks, favs) ==
    IF RenderThrows(res, toks, favs) THEN {"render"} ELSE {}

Crashed == "render" \in faults

\* mutant of ResultShown: the result block rendered whatever result holds
AlwaysShown == TRUE

\* {result ? ( ... ) : null}: the result block (chips, Listen, Save) is on screen
ResultShown == Truthy(result)

(***************************************************************************)
(* Analysis: onChangeText, analyzeText.                                    *)
(***************************************************************************)
\* onChangeText={setInputText}
SetInputText(t) ==
    /\ ~Crashed
    /\ t # inputText
    /\ inputText' = t
    /\ UNCHANGED << result, tokens, loading, requests, nextId, alerts >>
    /\ UNCHANGED << storeVars, wordInfo, spoken, faults >>

\* if (!inputText) return;
AnalyzeGuard == ~Truthy(inputText)

\* analyzeText with an empty inputText: the guard returns
AnalyzeIgnored ==
    /\ ~Crashed
    /\ AnalyzeGuard
    /\ UNCHANGED << analysisVars, storeVars, wordInfo, spoken, faults >>

\* analyzeText up to the await: setLoading(true) and the POST
AnalyzeText ==
    /\ ~Crashed
    /\ ~AnalyzeGuard
    /\ nextId < MaxRequests
    /\ loading' = TRUE
    /\ requests' = requests \cup {[id |-> nextId + 1, text |-> inputText]}
    /\ nextId' = nextId + 1
    /\ UNCHANGED << inputText, result, tokens, alerts >>
    /\ UNCHANGED << storeVars, wordInfo, spoken, faults >>

\* mutant of LoadingAfter: loading left as it is
LoadingKept == loading

\* what setLoading is given in the finally block
LoadingAfter == FALSE

\* analyzeText after the await, the POST answered: setResult, setTokens, finally
AnalyzeSuccess(req, resp) ==
    /\ req \in requests
    /\ resp \in Responses(req.text)
    /\ requests' = requests \ {req}
    /\ result' = resp.normalized_text
    /\ tokens' = [defined |-> resp.hasTokens, items |-> resp.tokens]
    /\ loading' = LoadingAfter
    /\ faults' = faults \cup RenderFault(result', tokens', favorites)
    /\ UNCHANGED << inputText, nextId, alerts >>
    /\ UNCHANGED << storeVars, wordInfo, spoken >>

\* analyzeText after the await, the POST failed: catch, finally
AnalyzeFailure(req) ==
    /\ req \in requests
    /\ requests' = requests \ {req}
    /\ alerts' = alerts + 1
    /\ loading' = LoadingAfter
    /\ UNCHANGED << inputText, result, tokens, nextId >>
    /\ UNCHANGED << storeVars, wordInfo, spoken, faults >>

\* the POST of request id is answered
Answer(id) ==
    \E req \in requests :
        /\ req.id = id
        /\ \E resp \in Responses(req.text) : AnalyzeSuccess(req, resp)

\* the POST of request id fails
Fail(id) ==
    \E req \in requests :
        /\ req.id = id
        /\ AnalyzeFailure(req)

(***************************************************************************)
(* Speech and word info.                                                   *)
(***************************************************************************)
\* speak(textToSpeak) of the App: textToSpeak.replace throws on undefined
speak(textToSpeak) ==
    IF IsString(textToSpeak)
    THEN /\ spoken' = appPhoneticText(textToSpeak)
         /\ UNCHANGED faults
    ELSE /\ faults' = faults \cup {"speak"}
         /\ UNCHANGED spoken

\* the latest speak(textToSpeak), of seven rules: toLowerCase throws on undefined
speakLatest(textToSpeak) ==
    IF IsString(textToSpeak)
    THEN /\ spoken' = phoneticText(textToSpeak)
         /\ UNCHANGED faults
    ELSE /\ faults' = faults \cup {"speak"}
         /\ UNCHANGED spoken

\* the speak(textToSpeak) of four rules
speakEarly(textToSpeak) ==
    IF IsString(textToSpeak)
    THEN /\ spoken' = earlyPhoneticText(textToSpeak)
         /\ UNCHANGED faults
    ELSE /\ faults' = faults \cup {"speak"}
         /\ UNCHANGED spoken

\* the Listen button: onPress={() => speak(result)}
Listen ==
    /\ ~Crashed
    /\ ResultShown
    /\ speak(result)
    /\ UNCHANGED << analysisVars, storeVars, wordInfo >>

\* the speaker icon of a favorite: onPress={() => speak(item)}
SpeakFavorite(i) ==
    /\ ~Crashed
    /\ favorites.isArray
    /\ i \in DOMAIN favorites.items
    /\ speak(favorites.items[i])
    /\ UNCHANGED << analysisVars, storeVars, wordInfo >>

\* a word chip: onPress={() => showWordInfo(token)}; token.tags.find throws
\* when the token has no tags
ShowWordInfo(i) ==
    /\ ~Crashed
    /\ ResultShown
    /\ tokens.defined
    /\ i \in DOMAIN tokens.items
    /\ LET token == tokens.items[i]
       IN  IF token.hasTags
           THEN /\ wordInfo' = [word |-> token.normalized,
                                definition |-> definition(token),
                                pos |-> pos(token)]
                /\ UNCHANGED faults
           ELSE /\ faults' = faults \cup {"showWordInfo"}
                /\ UNCHANGED wordInfo
    /\ UNCHANGED << analysisVars, storeVars, spoken >>

(***************************************************************************)
(* Favorites: loadFavorites, saveToFavorites, removeFavorite, and the      *)
(* storage operations they start.  AsyncStorage runs the operations of a   *)
(* key in the order they were started.                                     *)
(***************************************************************************)
\* Array.prototype.includes
includes(list, x) == \E i \in DOMAIN list : list[i] = x

\* mutant of SaveGuard: the includes test left out
SaveGuardNoIncludes(favs, res) == ~Truthy(res)

\* if (!result || favorites.includes(result)) return;
SaveGuard(favs, res) == ~Truthy(res) \/ includes(favs, res)

\* mutant of newFavs: the new favorite put last
newFavsAtEnd(favs, res) == favs \o <<res>>

\* const newFavs = [result, ...favorites];
newFavs(favs, res) == <<res>> \o favs

\* mutant of filtered: the test of the filter inverted
filteredInverted(favs, item) == SelectSeq(favs, LAMBDA f : f = item)

\* const filtered = favorites.filter(f => f !== item);
filtered(favs, item) == SelectSeq(favs, LAMBDA f : f # item)

\* the Save button with the guard of saveToFavorites returning
SaveIgnored ==
    /\ ~Crashed
    /\ ResultShown
    /\ favorites.isArray
    /\ SaveGuard(favorites.items, result)
    /\ UNCHANGED << analysisVars, storeVars, wordInfo, spoken, faults >>

\* the Save button: saveToFavorites, up to the await
SaveToFavorites ==
    /\ ~Crashed
    /\ ResultShown
    /\ favorites.isArray
    /\ ~SaveGuard(favorites.items, result)
    /\ Len(writes) < MaxPending
    /\ favorites' = [isArray |-> TRUE, items |-> newFavs(favorites.items, result)]
    /\ writes' = Append(writes, stringify(newFavs(favorites.items, result)))
    /\ UNCHANGED << storage, loadPc, saved >>
    /\ UNCHANGED << analysisVars, wordInfo, spoken, faults >>

\* the bin icon of a favorite: removeFavorite(item), up to the await
RemoveFavorite(i) ==
    /\ ~Crashed
    /\ favorites.isArray
    /\ i \in DOMAIN favorites.items
    /\ Len(writes) < MaxPending
    /\ LET item == favorites.items[i]
       IN  /\ favorites' = [isArray |-> TRUE, items |-> filtered(favorites.items, item)]
           /\ writes' = Append(writes, stringify(filtered(favorites.items, item)))
    /\ UNCHANGED << storage, loadPc, saved >>
    /\ UNCHANGED << analysisVars, wordInfo, spoken, faults >>

\* AsyncStorage.getItem('favorites') reads the key
ReadExec ==
    /\ loadPc = "issued"
    /\ loadPc' = "read"
    /\ saved' = storage
    /\ UNCHANGED << favorites, storage, writes >>
    /\ UNCHANGED << analysisVars, wordInfo, spoken, faults >>

\* AsyncStorage.getItem('favorites') fails: the await throws out of loadFavorites
ReadFail ==
    /\ loadPc = "issued"
    /\ loadPc' = "done"
    /\ faults' = faults \cup {"load"}
    /\ UNCHANGED << favorites, storage, saved, writes >>
    /\ UNCHANGED << analysisVars, wordInfo, spoken >>

\* if (saved): whether loadFavorites gives the value read to JSON.parse
LoadGuard(value) == value.kind # "null"

\* loadFavorites after the await: if (saved) setFavorites(JSON.parse(saved));
LoadResolve ==
    /\ loadPc = "read"
    /\ loadPc' = "done"
    /\ saved' = StoredNull
    /\ \/ /\ ~LoadGuard(saved)
          /\ UNCHANGED << favorites, faults >>
       \/ /\ LoadGuard(saved)
          /\ saved.kind = "garbage"
          /\ faults' = faults \cup {"load"}
          /\ UNCHANGED favorites
       \/ /\ LoadGuard(saved)
          /\ saved.kind \in {"object", "array"}
          /\ favorites' = [isArray |-> saved.kind = "array", items |-> saved.items]
          /\ faults' = faults \cup RenderFault(result, tokens, favorites')
    /\ UNCHANGED << storage, writes >>
    /\ UNCHANGED << analysisVars, wordInfo, spoken >>

\* the oldest AsyncStorage.setItem('favorites', ...) in flight writes the key
WriteExec ==
    /\ loadPc # "issued"
    /\ writes # <<>>
    /\ storage' = Head(writes)
    /\ writes' = Tail(writes)
    /\ UNCHANGED << favorites, loadPc, saved >>
    /\ UNCHANGED << analysisVars, wordInfo, spoken, faults >>

\* the oldest AsyncStorage.setItem in flight rejects: the await throws out of
\* saveToFavorites or removeFavorite, the key stays as it is
WriteFail ==
    /\ loadPc # "issued"
    /\ writes # <<>>
    /\ writes' = Tail(writes)
    /\ faults' = faults \cup {"save"}
    /\ UNCHANGED << favorites, storage, loadPc, saved >>
    /\ UNCHANGED << analysisVars, wordInfo, spoken >>

(***************************************************************************)
(* Specifications.                                                         *)
(***************************************************************************)
\* the history variables stay as they are
Frozen == UNCHANGED << resultFrom, lastAnalyze, hist >>

\* The app: every handler and every completion of an operation in flight.
Next ==
    \/ \E t \in InputTexts : SetInputText(t) /\ Frozen
    \/ AnalyzeIgnored /\ Frozen
    \/ AnalyzeText /\ Frozen
    \/ \E id \in 1..MaxRequests : Answer(id) /\ Frozen
    \/ \E id \in 1..MaxRequests : Fail(id) /\ Frozen
    \/ Listen /\ Frozen
    \/ \E i \in 1..Len(favorites.items) : SpeakFavorite(i) /\ Frozen
    \/ \E i \in 1..Len(tokens.items) : ShowWordInfo(i) /\ Frozen
    \/ SaveIgnored /\ Frozen
    \/ SaveToFavorites /\ Frozen
    \/ \E i \in 1..Len(favorites.items) : RemoveFavorite(i) /\ Frozen
    \/ ReadExec /\ Frozen
    \/ ReadFail /\ Frozen
    \/ LoadResolve /\ Frozen
    \/ WriteExec /\ Frozen
    \/ WriteFail /\ Frozen

Spec == Init /\ [][Next]_vars

(***************************************************************************)
(* The same app with one history variable recorded.                        *)
(***************************************************************************)
\* hist after saveToFavorites: the second call in a row with the same result,
\* or a first call, with the list it found
HistSave ==
    IF hist.op \in {"save", "save2"} /\ hist.arg = result
    THEN [hist EXCEPT !.op = "save2"]
    ELSE [op |-> "save", arg |-> result, pre |-> favorites.items]

\* hist after removeFavorite(item): the call that follows one saveToFavorites
\* of the same string, or any other
HistRemove(item) ==
    IF hist.op = "save" /\ hist.arg = item
    THEN [hist EXCEPT !.op = "save_remove"]
    ELSE NoHist

\* hist after loadFavorites: a load that sets the list starts it anew
HistLoad == IF LoadGuard(saved) /\ saved.kind # "garbage" THEN NoHist ELSE hist

\* hist records the calls of saveToFavorites and removeFavorite
HistNext ==
    \/ \E t \in InputTexts : SetInputText(t) /\ UNCHANGED hist /\ UNCHANGED << resultFrom, lastAnalyze >>
    \/ AnalyzeIgnored /\ UNCHANGED hist /\ UNCHANGED << resultFrom, lastAnalyze >>
    \/ AnalyzeText /\ UNCHANGED hist /\ UNCHANGED << resultFrom, lastAnalyze >>
    \/ \E id \in 1..MaxRequests : Answer(id) /\ UNCHANGED hist /\ UNCHANGED << resultFrom, lastAnalyze >>
    \/ \E id \in 1..MaxRequests : Fail(id) /\ UNCHANGED hist /\ UNCHANGED << resultFrom, lastAnalyze >>
    \/ Listen /\ UNCHANGED hist /\ UNCHANGED << resultFrom, lastAnalyze >>
    \/ \E i \in 1..Len(favorites.items) : SpeakFavorite(i) /\ UNCHANGED hist /\ UNCHANGED << resultFrom, lastAnalyze >>
    \/ \E i \in 1..Len(tokens.items) : ShowWordInfo(i) /\ UNCHANGED hist /\ UNCHANGED << resultFrom, lastAnalyze >>
    \/ SaveIgnored /\ hist' = HistSave /\ UNCHANGED << resultFrom, lastAnalyze >>
    \/ SaveToFavorites /\ hist' = HistSave /\ UNCHANGED << resultFrom, lastAnalyze >>
    \/ \E i \in 1..Len(favorites.items) : RemoveFavorite(i) /\ hist' = HistRemove(favorites.items[i]) /\ UNCHANGED << resultFrom, lastAnalyze >>
    \/ ReadExec /\ UNCHANGED hist /\ UNCHANGED << resultFrom, lastAnalyze >>
    \/ ReadFail /\ UNCHANGED hist /\ UNCHANGED << resultFrom, lastAnalyze >>
    \/ LoadResolve /\ hist' = HistLoad /\ UNCHANGED << resultFrom, lastAnalyze >>
    \/ WriteExec /\ UNCHANGED hist /\ UNCHANGED << resultFrom, lastAnalyze >>
    \/ WriteFail /\ UNCHANGED hist /\ UNCHANGED << resultFrom, lastAnalyze >>

HistSpec == Init /\ [][HistNext]_vars

\* resultFrom records the request whose answer set result and tokens
RaceNext ==
    \/ \E t \in InputTexts : SetInputText(t) /\ UNCHANGED resultFrom /\ UNCHANGED << lastAnalyze, hist >>
    \/ AnalyzeIgnored /\ UNCHANGED resultFrom /\ UNCHANGED << lastAnalyze, hist >>
    \/ AnalyzeText /\ UNCHANGED resultFrom /\ UNCHANGED << lastAnalyze, hist >>
    \/ \E id \in 1..MaxRequests : Answer(id) /\ resultFrom' = id /\ UNCHANGED << lastAnalyze, hist >>
    \/ \E id \in 1..MaxRequests : Fail(id) /\ UNCHANGED resultFrom /\ UNCHANGED << lastAnalyze, hist >>
    \/ Listen /\ UNCHANGED resultFrom /\ UNCHANGED << lastAnalyze, hist >>
    \/ \E i \in 1..Len(favorites.items) : SpeakFavorite(i) /\ UNCHANGED resultFrom /\ UNCHANGED << lastAnalyze, hist >>
    \/ \E i \in 1..Len(tokens.items) : ShowWordInfo(i) /\ UNCHANGED resultFrom /\ UNCHANGED << lastAnalyze, hist >>
    \/ SaveIgnored /\ UNCHANGED resultFrom /\ UNCHANGED << lastAnalyze, hist >>
    \/ SaveToFavorites /\ UNCHANGED resultFrom /\ UNCHANGED << lastAnalyze, hist >>
    \/ \E i \in 1..Len(favorites.items) : RemoveFavorite(i) /\ UNCHANGED resultFrom /\ UNCHANGED << lastAnalyze, hist >>
    \/ ReadExec /\ UNCHANGED resultFrom /\ UNCHANGED << lastAnalyze, hist >>
    \/ ReadFail /\ UNCHANGED resultFrom /\ UNCHANGED << lastAnalyze, hist >>
    \/ LoadResolve /\ UNCHANGED resultFrom /\ UNCHANGED << lastAnalyze, hist >>
    \/ WriteExec /\ UNCHANGED resultFrom /\ UNCHANGED << lastAnalyze, hist >>
    \/ WriteFail /\ UNCHANGED resultFrom /\ UNCHANGED << lastAnalyze, hist >>

RaceSpec == Init /\ [][RaceNext]_vars

\* lastAnalyze records whether the last step was analyzeText, and how it ended
CallNext ==
    \/ \E t \in InputTexts : SetInputText(t) /\ lastAnalyze' = "none" /\ UNCHANGED << resultFrom, hist >>
    \/ AnalyzeIgnored /\ lastAnalyze' = "ignored" /\ UNCHANGED << resultFrom, hist >>
    \/ AnalyzeText /\ lastAnalyze' = "sent" /\ UNCHANGED << resultFrom, hist >>
    \/ \E id \in 1..MaxRequests : Answer(id) /\ lastAnalyze' = "answered" /\ UNCHANGED << resultFrom, hist >>
    \/ \E id \in 1..MaxRequests : Fail(id) /\ lastAnalyze' = "failed" /\ UNCHANGED << resultFrom, hist >>
    \/ Listen /\ lastAnalyze' = "none" /\ UNCHANGED << resultFrom, hist >>
    \/ \E i \in 1..Len(favorites.items) : SpeakFavorite(i) /\ lastAnalyze' = "none" /\ UNCHANGED << resultFrom, hist >>
    \/ \E i \in 1..Len(tokens.items) : ShowWordInfo(i) /\ lastAnalyze' = "none" /\ UNCHANGED << resultFrom, hist >>
    \/ SaveIgnored /\ lastAnalyze' = "none" /\ UNCHANGED << resultFrom, hist >>
    \/ SaveToFavorites /\ lastAnalyze' = "none" /\ UNCHANGED << resultFrom, hist >>
    \/ \E i \in 1..Len(favorites.items) : RemoveFavorite(i) /\ lastAnalyze' = "none" /\ UNCHANGED << resultFrom, hist >>
    \/ ReadExec /\ lastAnalyze' = "none" /\ UNCHANGED << resultFrom, hist >>
    \/ ReadFail /\ lastAnalyze' = "none" /\ UNCHANGED << resultFrom, hist >>
    \/ LoadResolve /\ lastAnalyze' = "none" /\ UNCHANGED << resultFrom, hist >>
    \/ WriteExec /\ lastAnalyze' = "none" /\ UNCHANGED << resultFrom, hist >>
    \/ WriteFail /\ lastAnalyze' = "none" /\ UNCHANGED << resultFrom, hist >>

CallSpec == Init /\ [][CallNext]_vars

\* The analysis path alone: typing, analyzeText and its completions;
\* lastAnalyze recorded as in CallNext.
AnalysisNext ==
    \/ \E t \in InputTexts : SetInputText(t) /\ lastAnalyze' = "none" /\ UNCHANGED << resultFrom, hist >>
    \/ AnalyzeIgnored /\ lastAnalyze' = "ignored" /\ UNCHANGED << resultFrom, hist >>
    \/ AnalyzeText /\ lastAnalyze' = "sent" /\ UNCHANGED << resultFrom, hist >>
    \/ \E id \in 1..MaxRequests : Answer(id) /\ lastAnalyze' = "answered" /\ UNCHANGED << resultFrom, hist >>
    \/ \E id \in 1..MaxRequests : Fail(id) /\ lastAnalyze' = "failed" /\ UNCHANGED << resultFrom, hist >>

\* the POST of request id completes, one way or the other
Settle(id) == AnalysisNext /\ (Answer(id) \/ Fail(id))

\* The analysis path, with the network answering or failing every request.
FairAnalysisSpec ==
    /\ Init
    /\ [][AnalysisNext]_vars
    /\ \A id \in 1..MaxRequests : WF_vars(Settle(id))

(***************************************************************************)
(* Properties.                                                             *)
(***************************************************************************)
\* the number of occurrences of x in list
Count(x, list) == Cardinality({i \in DOMAIN list : list[i] = x})

\* C1: in every reachable state, whatever the order of the startup load, the
\* adds and the removes and of their storage writes, the favorites list holds
\* no string twice and no empty string.
C1_NoDuplicateNoEmpty ==
    /\ \A i, j \in DOMAIN favorites.items :
          i # j => favorites.items[i] # favorites.items[j]
    /\ \A i \in DOMAIN favorites.items : Truthy(favorites.items[i])

\* C1 witness: two favorites in the list, both writes still in flight
C1_Witness == Len(favorites.items) = 2 /\ Len(writes) = 2

\* C2 as stated: after add(x); add(x) the list holds x exactly once, and first.
C2_Original ==
    hist.op = "save2" =>
        /\ Count(hist.arg, favorites.items) = 1
        /\ favorites.items[1] = hist.arg

\* C2 amended: after add(x); add(x) the list holds x exactly once; x is first
\* when the list did not hold x before, and otherwise the list is as it was.
C2_AddTwice ==
    hist.op = "save2" =>
        /\ Count(hist.arg, favorites.items) = 1
        /\ ~includes(hist.pre, hist.arg) => favorites.items = <<hist.arg>> \o hist.pre
        /\ includes(hist.pre, hist.arg) => favorites.items = hist.pre

\* C2 witness: a new string was added twice to a list that was not empty
C2_Witness ==
    hist.op = "save2" /\ ~includes(hist.pre, hist.arg) /\ hist.pre # <<>>

\* C3 as stated: after add(x); remove(x) the list is the list before the add.
C3_Original == hist.op = "save_remove" => favorites.items = hist.pre

\* C3 amended: after add(x); remove(x), for x not in the list before the add,
\* the list is the list before the add.
C3_AddRemove ==
    (hist.op = "save_remove" /\ ~includes(hist.pre, hist.arg)) =>
        favorites.items = hist.pre

\* C3 witness: a new string was added to a list that was not empty, then removed
C3_Witness ==
    hist.op = "save_remove" /\ ~includes(hist.pre, hist.arg) /\ hist.pre # <<>>

\* C4 as stated: an add or remove that changes the list starts a write of the
\* whole new list, and when the last write in flight completes the stored
\* value is the in-memory list.
C4_Original ==
    [][ /\ (favorites' # favorites /\ loadPc' = loadPc) =>
               writes' = Append(writes, stringify(favorites'.items))
        /\ (writes # <<>> /\ writes' = <<>>) =>
               storage' = stringify(favorites'.items) ]_vars

\* C5 as stated: with two mutations in flight, the in-memory list is the one
\* both mutations applied in order give, which is the list the later write
\* carries, so that memory and storage agree once the writes have completed.
C5_Original ==
    Len(writes) >= 2 =>
        /\ favorites.isArray
        /\ favorites.items = writes[Len(writes)].items

\* C6 as stated: load never raises, and the in-memory favorites value stays a
\* sequence of strings.
C6_Original == "load" \notin faults /\ favorites.isArray

\* C7 as stated: the answer to an earlier request never replaces the result
\* and tokens that the answer to a later request has set.
C7_Original == [][resultFrom' >= resultFrom]_vars

\* request id is in flight
InFlight(id) == \E req \in requests : req.id = id

\* C8: every request sent is answered or fails, and either way loading is
\* false again and no request is sent; a failure raises exactly one alert and
\* no fault, and nothing else raises that alert.
C8_BackToIdle ==
    /\ [][ /\ (requests' # requests /\ requests' \subseteq requests) =>
                  (loading' = FALSE /\ nextId' = nextId)
           /\ (lastAnalyze' = "failed" /\ requests' # requests) =>
                  (alerts' = alerts + 1 /\ faults' = faults)
           /\ alerts' # alerts => lastAnalyze' = "failed" ]_vars
    /\ \A id \in 1..MaxRequests :
          InFlight(id) ~> (~InFlight(id) /\ loading = FALSE)

\* C8 witness: a request failed, one alert was raised, the app is idle
C8_Witness ==
    lastAnalyze = "failed" /\ alerts = 1 /\ nextId = 1 /\ requests = {} /\ loading = FALSE

\* C9: analyzeText with an empty inputText changes nothing, no request is
\* sent while inputText is empty, and Speech.speak is never handed an empty
\* or undefined text, nor does speak throw.
C9_EmptyIgnored ==
    /\ [][ /\ (lastAnalyze' = "ignored" /\ lastAnalyze # "ignored") =>
                  (inputText = <<>> /\ UNCHANGED progVars)
           /\ inputText = <<>> =>
                  (nextId' = nextId /\ requests' \subseteq requests /\ (loading' => loading))
         ]_vars
    /\ [](spoken # <<>> /\ spoken # Undefined /\ "speak" \notin faults)

\* C9 witness: analyzeText was just ignored with a result on display and a
\* text spoken
C9_Witness == lastAnalyze = "ignored" /\ Truthy(result) /\ spoken # Silent

\* C10 as stated: after any answer, result is a string, tokens is a sequence,
\* every token has its original, normalized and tags, and showWordInfo has
\* not thrown.
C10_Original ==
    /\ IsString(result)
    /\ tokens.defined
    /\ \A i \in DOMAIN tokens.items :
          /\ IsString(tokens.items[i].original)
          /\ IsString(tokens.items[i].normalized)
          /\ tokens.items[i].hasTags
    /\ "showWordInfo" \notin faults

(***************************************************************************)
(* Tag lookup on its own: the screen after the answer to one request has   *)
(* arrived with a single token, the tags of the token drawn from TagLists, *)
(* and the word chip pressed.                                              *)
(***************************************************************************)
TagDefEat == <<"D","E","F",":","e","a","t">>

TagDefEmpty == <<"D","E","F",":">>

TagDefColon == <<"D","E","F",":","a",":","b">>

TagPosEmpty == <<"P","O","S",":">>

TagNoColon == <<"D","E","F">>

TagOther == <<"X",":","y">>

TagLower == <<"d","e","f",":","x">>

LookupTags ==
    { TagDefEat, TagDefEmpty, TagDefColon, TagPosAux, TagPosEmpty,
      TagNoColon, TagOther, TagLower }

\* the tag sequences a token of the answer carries
TagLists ==
    {<<>>} \cup { <<a>> : a \in LookupTags }
           \cup { <<a, b>> : a \in LookupTags, b \in LookupTags }

LookupInit ==
    /\ inputText = TextAp
    /\ result = toLowerCase(TextAp)
    /\ \E tags \in TagLists :
           tokens = [defined |-> TRUE,
                     items |-> << [original |-> TextAp, normalized |-> toLowerCase(TextAp),
                                   hasTags |-> TRUE, tags |-> tags] >>]
    /\ loading = FALSE
    /\ favorites = EmptyFavorites
    /\ storage = StoredNull
    /\ loadPc = "done"
    /\ saved = StoredNull
    /\ writes = <<>>
    /\ requests = {}
    /\ nextId = 1
    /\ alerts = 0
    /\ wordInfo = NoAlert
    /\ spoken = Silent
    /\ faults = {}
    /\ resultFrom = 0
    /\ lastAnalyze = "none"
    /\ hist = NoHist

LookupNext ==
    \/ \E i \in 1..Len(tokens.items) : ShowWordInfo(i) /\ Frozen

LookupSpec == LookupInit /\ [][LookupNext]_vars

\* some tag begins with the prefix
HasTag(tags, prefix) == \E k \in DOMAIN tags : startsWith(tags[k], prefix)

\* the first tag, in tag order, that begins with the prefix
FirstTag(tags, prefix) ==
    tags[CHOOSE k \in DOMAIN tags :
            /\ startsWith(tags[k], prefix)
            /\ \A j \in 1..(k - 1) : ~startsWith(tags[j], prefix)]

\* everything after the first ":" of a tag that has one
AfterFirstColon(tag) ==
    LET k == CHOOSE i \in DOMAIN tag :
                 tag[i] = ":" /\ \A j \in 1..(i - 1) : tag[j] # ":"
    IN  SubSeq(tag, k + 1, Len(tag))

\* C11 as stated: showWordInfo displays "No definition found" if and only if
\* no tag of the token begins with "DEF:", and "Unknown" if and only if no
\* tag begins with "POS:".
C11_Original ==
    wordInfo # NoAlert =>
        LET tags == tokens.items[1].tags
        IN  /\ (wordInfo.definition = NoDefinitionFound) <=> ~HasTag(tags, DefPrefix)
            /\ (wordInfo.pos = Unknown) <=> ~HasTag(tags, PosPrefix)

\* C12 as stated: when some tag of the token matches the kind, showWordInfo
\* shows the value of the first such tag in tag order, the value being
\* everything after the first ":" of the tag, a ":" inside the value included
\* (an empty value shows as the sentinel).
C12_Original ==
    wordInfo # NoAlert =>
        LET tags == tokens.items[1].tags
        IN  /\ HasTag(tags, DefPrefix) =>
                   wordInfo.definition =
                       OrElse(AfterFirstColon(FirstTag(tags, DefPrefix)), NoDefinitionFound)
            /\ HasTag(tags, PosPrefix) =>
                   wordInfo.pos =
                       OrElse(AfterFirstColon(FirstTag(tags, PosPrefix)), Unknown)

(***************************************************************************)
(* speak on its own: the two revisions of speak that lowercase their       *)
(* argument, called on the texts of SpeakTexts; hist records the call.     *)
(***************************************************************************)
TextMapManje == <<"m","'","a","p"," ","m","a","n","j","e">>

SpeakPieces ==
    { <<"a","p">>, <<"A","p">>, <<"m","'">>, <<" ">>, <<"e">>, <<"é">>, <<"É">>,
      <<"m","a","n","j","e">>, <<"m","w","e","n">>, <<"m","a","c","h","e">>,
      <<"a","l","e">>, <<"P","a","l","e">>, <<"l","i">>, TextMapManje }

\* the arguments of speak: one piece, or two in a row
SpeakTexts ==
    SpeakPieces \cup { a \o b : a \in SpeakPieces, b \in SpeakPieces }

\* the App just mounted, nothing stored
SpeakInit == Init /\ storage = StoredNull

SpeakNext ==
    \/ \E t \in SpeakTexts :
           /\ speakLatest(t)
           /\ hist' = [op |-> "speakLatest", arg |-> t, pre |-> <<>>]
           /\ UNCHANGED << analysisVars, storeVars, wordInfo, resultFrom, lastAnalyze >>
    \/ \E t \in SpeakTexts :
           /\ speakEarly(t)
           /\ hist' = [op |-> "speakEarly", arg |-> t, pre |-> <<>>]
           /\ UNCHANGED << analysisVars, storeVars, wordInfo, resultFrom, lastAnalyze >>

SpeakSpec == SpeakInit /\ [][SpeakNext]_vars

\* The reference rewrite.  An occurrence of a rule at position i: the
\* pattern is there, and for a word-bounded rule no word character stands
\* on either side of it.
Occurs(s, i, rule) ==
    LET n == Len(rule.pat)
    IN  /\ i + n - 1 <= Len(s)
        /\ \A k \in 1..n : s[i + k - 1] = rule.pat[k]
        /\ rule.wb => /\ i = 1 \/ ~IsWordChar(s[i - 1])
                      /\ i + n > Len(s) \/ ~IsWordChar(s[i + n])

\* the occurrences taken, left to right and non-overlapping: an occurrence
\* is taken unless an occurrence taken before it covers its first character
Taken(s, rule) ==
    LET n == Len(rule.pat)
        sel[i \in 1..Len(s)] ==
            /\ Occurs(s, i, rule)
            /\ \A j \in 1..(i - 1) : (j + n > i) => ~sel[j]
    IN  { i \in 1..Len(s) : sel[i] }

RECURSIVE Pieces(_, _, _, _)
\* the rewritten text of s[1..i]
Pieces(s, i, rule, taken) ==
    IF i = 0 THEN <<>>
    ELSE Pieces(s, i - 1, rule, taken) \o
         ( IF i \in taken THEN rule.rep
           ELSE IF \E j \in taken : j < i /\ i < j + Len(rule.pat) THEN <<>>
           ELSE <<s[i]>> )

RefRule(s, rule) == Pieces(s, Len(s), rule, Taken(s, rule))

RECURSIVE RefRewrite(_, _)
\* the rules one at a time in table order, the last rule outermost
RefRewrite(s, rules) ==
    IF rules = <<>> THEN toLowerCase(s)
    ELSE RefRule(RefRewrite(s, SubSeq(rules, 1, Len(rules) - 1)), rules[Len(rules)])

\* the table of the scenario: manje->man-zhay and mwen->mou-en only
TwoRules == << Rules[3], Rules[4] >>

\* C13: the text speak hands to Speech.speak is the reference rewrite of its
\* argument under the rule table of that speak, and with the rules manje and
\* mwen only "m'ap manje" becomes "m'ap man-zhay".
C13_Rewrite ==
    /\ hist.op = "speakLatest" => spoken = RefRewrite(hist.arg, Rules)
    /\ hist.op = "speakEarly" => spoken = RefRewrite(hist.arg, EarlyRules)
    /\ ApplyRules(toLowerCase(TextMapManje), TwoRules, 1) =
           <<"m","'","a","p"," ","m","a","n","-","z","h","a","y">>

\* C13 witness: the latest speak was called on "m'ap manjem'ap manje", both
\* words rewritten twice
C13_Witness ==
    /\ hist.op = "speakLatest"
    /\ hist.arg = TextMapManje \o TextMapManje
    /\ spoken = <<"m","'","a","p","p"," ","m","a","n","-","z","h","a","y",
                  "m","'","a","p","p"," ","m","a","n","-","z","h","a","y">>

\* C14 as stated: when loadFavorites resolves, every favorite that was in the
\* in-memory list is still in it, and once the load is done, with no fault of
\* the load or of a write and no write in flight, the in-memory list is the
\* stored list.
C14_Original ==
    /\ [][ (loadPc = "read" /\ loadPc' = "done" /\ favorites'.isArray) =>
               \A i \in DOMAIN favorites.items :
                   \E j \in DOMAIN favorites'.items :
                       favorites'.items[j] = favorites.items[i] ]_vars
    /\ []( ( /\ loadPc = "done"
             /\ "load" \notin faults
             /\ "save" \notin faults
             /\ writes = <<>>
             /\ favorites.isArray
             /\ storage.kind = "array" ) => favorites.items = storage.items )

\* the pattern occurs somewhere in s
Contains(s, pat) ==
    \E i \in 1..Len(s) :
        i + Len(pat) - 1 <= Len(s) /\ SubSeq(s, i, i + Len(pat) - 1) = pat

\* C15 as stated: the latest speak on a text that contains "pale" hands
\* Speech.speak a text that contains "pah-lay".
C15_Original ==
    (hist.op = "speakLatest" /\ Contains(toLowerCase(hist.arg), Rules[6].pat)) =>
        Contains(spoken, Rules[6].rep)

=============================================================================
